---- MODULE Spec2Model ----
(***************************************************************************)
(* Fingertip tracking pipeline of ARPi.                                    *)
(*                                                                         *)
(*   hand_tracker.py    MultiHandTracker: camera open, worker cycle        *)
(*                      (capture, ROI gate, extraction, mapping, One Euro  *)
(*                      smoothing, grace-window retention, publication)    *)
(*                      and the consumer reads get_tips / get_primary.     *)
(*   server_windows.py  handle: the detector side of the remote path.      *)
(*   network_client.py  RemoteCameraClient: the receive loop and the       *)
(*                      consumer reads.                                    *)
(*                                                                         *)
(* Numbers.  Python floats are modelled in fixed point:                    *)
(*   - normalised landmark coordinates are per-mille integers (0..1000),   *)
(*   - roi_scale is a per-mille integer (0.98 is 980),                     *)
(*   - time is in milliseconds,                                            *)
(*   - filter positions are in 1/Q pixel, velocities in 1/Q pixel per      *)
(*     second, cutoff frequencies in 1/100 Hz, smoothing coefficients in   *)
(*     per-mille, pi is 22/7.                                              *)
(* int() of a non-negative float is \div, round() is round-half-to-even.   *)
(* None is the empty sequence <<>>, Some(v) the sequence <<v>>.            *)
(***************************************************************************)
EXTENDS Integers, Sequences, FiniteSets, TLC

(***************************************************************************)
(* Bounds of the model.                                                    *)
(***************************************************************************)
\* worker iterations explored per run of the tracker
MaxCycles == 3
\* wall-clock time that passes in one worker iteration (sleep + processing), ms
StepMs == 125
\* fixed point resolution of the filter state: 1/Q pixel
Q == 10
\* messages a connection carries in the remote model
MaxMsgs == 3
MaxForeign == 1
\* calls of start() and of stop() in the lifecycle specification
MaxStarts == 2
MaxStops == 1
\* significand bits of the floating point numbers of the filter on its own
FpBits == 8
\* update() calls on the filter on its own
MaxCalls == 3

(***************************************************************************)
(* Program constants.                                                      *)
(***************************************************************************)
\* hand_tracker.py:379-385, the module level instance
SCREEN_W == 1920
SCREEN_H == 1080
\* server_windows.py:13
PROJECTOR_W == 1920
PROJECTOR_H == 1080
\* hand_tracker.py:325, age < 0.25 s
GRACE_MS == 250
\* hand_tracker.py:283 and server_windows.py:68, > 0.02 of the normalised
\* frame, squared, in per-mille units: 20 * 20
EXT_SQ == 400
\* hand_tracker.py:57, dt = max(1e-3, ...)
MIN_DT_MS == 1
\* hand_tracker.py:16, _LowPass(alpha=1.0), per-mille
LP_ALPHA == 1000

None == << >>
Some(v) == << v >>

Max(a, b) == IF a >= b THEN a ELSE b
Min(a, b) == IF a <= b THEN a ELSE b
Abs(a) == IF a >= 0 THEN a ELSE -a

(***************************************************************************)
(* ROI gate, extraction and mapping: hand_tracker.py:263-291.              *)
(***************************************************************************)
\* int(): truncation towards zero
IntTrunc(num, den) == IF num >= 0 THEN num \div den ELSE -((-num) \div den)

\* roi_w = int(w * self.roi_scale)
RoiW(w, scale) == IntTrunc(w * scale, 1000)
\* roi_h = int(roi_w * 9 / 16)
RoiH(w, scale) == IntTrunc(RoiW(w, scale) * 9, 16)
\* x_start = (w - roi_w) // 2
XStart(w, scale) == (w - RoiW(w, scale)) \div 2
\* y_start = (h - roi_h) // 2
YStart(w, h, scale) == (h - RoiH(w, scale)) \div 2
XEnd(w, scale) == XStart(w, scale) + RoiW(w, scale)
YEnd(w, h, scale) == YStart(w, h, scale) + RoiH(w, scale)

\* x_tip = int(tip.x * w), y_tip = int(tip.y * h)
XTip(hand, w) == IntTrunc(hand.tx * w, 1000)
YTip(hand, h) == IntTrunc(hand.ty * h, 1000)

\* the extension test left out: every detected hand counts as extended
ExtendedAny(hand) == TRUE

\* extended = hypot(tip.x - pip.x, tip.y - pip.y) > 0.02
\* (_distance_coords reads only the first two components)
Extended(hand) ==
    (hand.tx - hand.px) * (hand.tx - hand.px)
  + (hand.ty - hand.py) * (hand.ty - hand.py) > EXT_SQ

\* the gate with the far edges left out: x_tip < x_end and y_tip < y_end
InRoiHalfOpen(x, y, w, h, scale) ==
    /\ (w - IntTrunc(w * scale, 1000)) \div 2 <= x
    /\ x < (w - IntTrunc(w * scale, 1000)) \div 2 + IntTrunc(w * scale, 1000)
    /\ (h - IntTrunc(IntTrunc(w * scale, 1000) * 9, 16)) \div 2 <= y
    /\ y < (h - IntTrunc(IntTrunc(w * scale, 1000) * 9, 16)) \div 2
             + IntTrunc(IntTrunc(w * scale, 1000) * 9, 16)

\* x_start <= x_tip <= x_end and y_start <= y_tip <= y_end
InRoi(x, y, w, h, scale) ==
    /\ XStart(w, scale) <= x /\ x <= XEnd(w, scale)
    /\ YStart(w, h, scale) <= y /\ y <= YEnd(w, h, scale)

\* rel = (min(max(p, start), end) - start) / max(1, roi); int(rel * out)
MapAxis(p, start, end, roi, out) ==
    IntTrunc((Min(Max(p, start), end) - start) * out, Max(1, roi))

ScreenX(x, w, scale) ==
    MapAxis(x, XStart(w, scale), XEnd(w, scale), RoiW(w, scale), SCREEN_W)
ScreenY(y, w, h, scale) ==
    MapAxis(y, YStart(w, h, scale), YEnd(w, h, scale), RoiH(w, scale), SCREEN_H)

\* the accepted tip of one detected hand, or None
LocalTip(hand, idx, w, h, scale) ==
    LET x == XTip(hand, w)
        y == YTip(hand, h)
    IN  IF InRoi(x, y, w, h, scale) /\ Extended(hand)
        THEN Some([hand_idx |-> idx,
                   screen |-> << ScreenX(x, w, scale), ScreenY(y, w, h, scale) >>,
                   roi |-> << x, y >>])
        ELSE None

\* Concatenation of a sequence of sequences, in order.
RECURSIVE Flatten(_)
Flatten(ss) == IF ss = << >> THEN << >> ELSE Head(ss) \o Flatten(Tail(ss))

\* for idx, hand_landmarks in enumerate(res.multi_hand_landmarks): ... tips.append
ExtractTips(det, w, h, scale) ==
    Flatten([i \in 1..Len(det) |-> LocalTip(det[i], i - 1, w, h, scale)])

(***************************************************************************)
(* One Euro filter: hand_tracker.py:15-69.                                 *)
(***************************************************************************)
\* OneEuro1D.__init__ / reset: x_prev = dx_prev = last_t = None
FreshFilter == [seeded |-> FALSE, x_prev |-> 0, dx_prev |-> 0, last_t |-> 0]

\* _alpha without the normalisation: r is returned instead of r / (r + 1.0)
AlphaUnnormalised(dt, cutoff) == (44 * cutoff * dt) \div 700

\* _alpha(dt, cutoff): r = 2*pi*cutoff*dt; r / (r + 1.0) if r > 0.0 else 1.0
\* dt in ms, cutoff in 1/100 Hz, r in 1/1000, the result in per-mille.
AlphaPm(dt, cutoff) ==
    LET r == (44 * cutoff * dt) \div 700
    IN  IF r > 0 THEN (1000 * r) \div (r + 1000) ELSE 1000

\* _LowPass.apply(v): s = alpha * v + (1.0 - alpha) * s, with the alpha the class
\* is built with (LP_ALPHA, per-mille) and s the value of the previous call.
LowPassApply(v, s) == IntTrunc(LP_ALPHA * v + (1000 - LP_ALPHA) * s, 1000)

\* OneEuro1D.update(x, t): the filter after the call; the value the call
\* returns is the new x_prev (x itself on the first call).  x in 1/Q pixel.
\* minc: min_cutoff in 1/100 Hz; bnum: beta in 1/1000; d_cutoff is 1.0.
OneEuroUpdate(f, x, t, minc, bnum) ==
    IF ~f.seeded
    THEN [seeded |-> TRUE, x_prev |-> x, dx_prev |-> 0, last_t |-> t]
    ELSE LET dt == Max(MIN_DT_MS, t - f.last_t)
             dx == IntTrunc((x - f.x_prev) * 1000, dt)
             a_d == AlphaPm(dt, 100)
             edx == LowPassApply(IntTrunc(a_d * dx + (1000 - a_d) * f.dx_prev, 1000),
                                 f.dx_prev)
             cutoff == minc + (bnum * Abs(edx)) \div (10 * Q)
             a == AlphaPm(dt, cutoff)
             filtered == LowPassApply(IntTrunc(a * x + (1000 - a) * f.x_prev, 1000),
                                      f.x_prev)
         IN  [seeded |-> TRUE, x_prev |-> filtered, dx_prev |-> edx, last_t |-> t]

\* int(round(v)) of a value in 1/Q pixel: Python 3 rounds half to even.
RoundQ(v) ==
    LET fl == IF v >= 0 THEN v \div Q ELSE -(((-v) + Q - 1) \div Q)
        rem == v - fl * Q
    IN  IF 2 * rem < Q THEN fl
        ELSE IF 2 * rem > Q THEN fl + 1
        ELSE IF fl % 2 = 0 THEN fl ELSE fl + 1

(***************************************************************************)
(* Python dict helpers.  _smoothed keeps its insertion order (a sequence   *)
(* of [k, v]); the other dicts are functions on their key sets.            *)
(***************************************************************************)
DictKeys(d) == [i \in 1..Len(d) |-> d[i].k]
DictKeySet(d) == {d[i].k : i \in 1..Len(d)}
DictGet(d, key) == d[CHOOSE i \in 1..Len(d) : d[i].k = key].v
DictPut(d, key, val) ==
    IF key \in DictKeySet(d)
    THEN [i \in 1..Len(d) |-> IF d[i].k = key THEN [k |-> key, v |-> val] ELSE d[i]]
    ELSE Append(d, [k |-> key, v |-> val])

EmptyMap == [x \in {} |-> 0]
MapPut(f, key, val) == [x \in DOMAIN f \cup {key} |-> IF x = key THEN val ELSE f[x]]
MapDel(f, key) == [x \in DOMAIN f \ {key} |-> f[x]]

\* sorted(keys)
RECURSIVE SortedKeys(_)
SortedKeys(S) ==
    IF S = {} THEN << >>
    ELSE LET m == CHOOSE x \in S : \A y \in S : x <= y
         IN  << m >> \o SortedKeys(S \ {m})

(***************************************************************************)
(* The locked section of a worker cycle: hand_tracker.py:294-342.          *)
(* st is the record of what the section reads and writes:                  *)
(*   fs, fr   _filters_screen, _filters_roi   (hid -> [x, y] filter pair)  *)
(*   ls       _last_seen                                                   *)
(*   ns, nr   new_smoothed (ordered), new_smoothed_roi                     *)
(***************************************************************************)
FreshPair == [x |-> FreshFilter, y |-> FreshFilter]

\* lines 300-319, the body of `for t in tips` for one tip
SmoothTip(st, t, now) ==
    LET hid == t.hand_idx
        \* lines 304-310: ensure filters exist
        ps == IF hid \in DOMAIN st.fs THEN st.fs[hid] ELSE FreshPair
        pr == IF hid \in DOMAIN st.fr THEN st.fr[hid] ELSE FreshPair
        \* lines 313-316
        fx == OneEuroUpdate(ps.x, t.screen[1] * Q, now, 100, 7)
        fy == OneEuroUpdate(ps.y, t.screen[2] * Q, now, 100, 7)
        frx == OneEuroUpdate(pr.x, t.roi[1] * Q, now, 150, 10)
        fry == OneEuroUpdate(pr.y, t.roi[2] * Q, now, 150, 10)
    IN  [fs |-> MapPut(st.fs, hid, [x |-> fx, y |-> fy]),
         fr |-> MapPut(st.fr, hid, [x |-> frx, y |-> fry]),
         ns |-> DictPut(st.ns, hid, << RoundQ(fx.x_prev), RoundQ(fy.x_prev) >>),
         nr |-> MapPut(st.nr, hid, << RoundQ(frx.x_prev), RoundQ(fry.x_prev) >>),
         ls |-> MapPut(st.ls, hid, now)]

\* lines 299-319
RECURSIVE SmoothTips(_, _, _)
SmoothTips(st, ts, now) ==
    IF ts = << >> THEN st
    ELSE SmoothTips(SmoothTip(st, Head(ts), now), Tail(ts), now)

\* the grace window taken ten times too short (age < 0.025)
WithinGraceTenth(age) == age < GRACE_MS \div 10

\* line 325: age < 0.25
WithinGrace(age) == age < GRACE_MS

\* the prune without line 330: an evicted slot keeps its _last_seen entry
RetainOrEvictKeepSeen(st, e, old_roi, now) ==
    IF e.k \in DictKeySet(st.ns) THEN st
    ELSE LET age == now - (IF e.k \in DOMAIN st.ls THEN st.ls[e.k] ELSE 0)
         IN  IF WithinGrace(age)
             THEN [st EXCEPT !.ns = DictPut(st.ns, e.k, e.v),
                             !.nr = IF e.k \in DOMAIN old_roi
                                    THEN MapPut(st.nr, e.k, old_roi[e.k])
                                    ELSE st.nr]
             ELSE st

\* lines 323-330, the body of `for hid, (sx, sy) in list(self._smoothed.items())`
RetainOrEvict(st, e, old_roi, now) ==
    IF e.k \in DictKeySet(st.ns) THEN st
    ELSE LET age == now - (IF e.k \in DOMAIN st.ls THEN st.ls[e.k] ELSE 0)
         IN  IF WithinGrace(age)
             THEN [st EXCEPT !.ns = DictPut(st.ns, e.k, e.v),
                             !.nr = IF e.k \in DOMAIN old_roi
                                    THEN MapPut(st.nr, e.k, old_roi[e.k])
                                    ELSE st.nr]
             ELSE [st EXCEPT !.ls = MapDel(st.ls, e.k)]

\* lines 322-330
RECURSIVE PruneLoop(_, _, _, _)
PruneLoop(st, old, old_roi, now) ==
    IF old = << >> THEN st
    ELSE PruneLoop(RetainOrEvict(st, Head(old), old_roi, now), Tail(old), old_roi, now)

\* out built in the insertion order of the dict, without sorted()
BuildOutUnsorted(sm, sm_roi) ==
    LET ks == DictKeys(sm)
    IN  [i \in 1..Len(ks) |->
            [hand_idx |-> ks[i],
             screen |-> DictGet(sm, ks[i]),
             roi |-> IF ks[i] \in DOMAIN sm_roi THEN Some(sm_roi[ks[i]]) ELSE None]]

\* lines 335-341: out, one item per key of _smoothed in sorted order
BuildOut(sm, sm_roi) ==
    LET ks == SortedKeys(DictKeySet(sm))
    IN  [i \in 1..Len(ks) |->
            [hand_idx |-> ks[i],
             screen |-> DictGet(sm, ks[i]),
             roi |-> IF ks[i] \in DOMAIN sm_roi THEN Some(sm_roi[ks[i]]) ELSE None]]

\* the published list extended in place instead of replaced
PublishInPlace(old, out) == old \o out

\* line 342: self._latest_tips = out
Publish(old, out) == out

\* get_primary, lines 371-374, on the list get_tips returned
PrimaryOf(tips) == IF tips = << >> THEN None ELSE tips[1].screen

(***************************************************************************)
(* Inputs.                                                                 *)
(***************************************************************************)
\* One detected hand: the index fingertip (landmark 8) and its proximal joint
\* (landmark 6), normalised, per-mille.
HandA == [tx |-> 500, ty |-> 500, px |-> 500, py |-> 560]
\* at the far corner of the ROI of a 640x480 and of an 800x600 frame at scale 0.98
HandEdge == [tx |-> 990, ty |-> 867, px |-> 990, py |-> 800]
\* tip and joint 0.01 apart: not extended
HandBent == [tx |-> 500, ty |-> 500, px |-> 500, py |-> 510]
\* extended, left of the ROI
HandOut == [tx |-> 5, ty |-> 500, px |-> 5, py |-> 560]

\* res.multi_hand_landmarks of one detector call
Detections ==
    { << >>, << HandA >>, << HandEdge >>, << HandBent >>,
      << HandOut, HandA >>, << HandA, HandEdge >> }

\* roi_scale of the constructor, per-mille: the default (0.95) and the module
\* level instance (0.98)
RoiScales == {950, 980}

\* frames the backends deliver: cv2 is asked for 640x480, Picamera2 for 800x600
CvFrame == [w |-> 640, h |-> 480]
PicamFrame == [w |-> 800, h |-> 600]

VARIABLES
    mode,            \* main.py USE_REMOTE: "local" or "remote"
    roi_scale,       \* self.roi_scale
    scene,           \* the detector results that can occur with the hands in view
    \* ---- MultiHandTracker
    running,         \* self._running
    cap,             \* self._cap: [obj, dev, opened]
    picam,           \* self._picam is not None
    lockOwner,       \* self._lock: "free", "worker" or "reader"
    latest_tips,     \* self._latest_tips
    last_seen,       \* self._last_seen
    smoothed,        \* self._smoothed, in insertion order
    smoothed_roi,    \* self._smoothed_roi
    filters_screen,  \* self._filters_screen
    filters_roi,     \* self._filters_roi
    \* ---- the worker thread
    wpc,             \* position in _worker: "idle", "top", "detect", "lock", "update", "sleep"
    frame,           \* frame of this iteration, or None
    tips,            \* tips of this iteration
    now,             \* now of this iteration (line 293)
    \* ---- a consumer thread
    rpc,             \* position in get_tips: "idle", "locked", "returned"
    rret,            \* the list get_tips returned
    \* ---- environment and history
    clock,           \* time.time(), ms
    ncycles,         \* worker iterations so far
    openFailed,      \* start() found no backend that opens
    reopened,        \* a reopen in _capture_frame gave an opened capture
    published        \* the snapshots completed cycles built (out of line 335-341)

localVars == << running, cap, picam, lockOwner, latest_tips, last_seen, smoothed,
                smoothed_roi, filters_screen, filters_roi, wpc, frame, tips, now,
                rpc, rret, clock, ncycles, openFailed, reopened, published >>
camVars == << running, cap, picam, openFailed, reopened >>
dataVars == << latest_tips, last_seen, smoothed, smoothed_roi, filters_screen,
               filters_roi, published >>
readerVars == << rpc, rret >>
confVars == << mode, roi_scale, scene >>

VARIABLES
    \* ---- server_windows.py handle, one connection
    srv_in,          \* messages the client sent, not yet read by `async for`
    srv_pc,          \* "recv" (at async for), "send" (at ws.send), "done"
    srv_frame,       \* the frame message being processed
    srv_payload,     \* tips of the frame being processed
    srv_log,         \* history: << "decoded" | "sent", n >>, n the message's number
    srv_read,        \* history: the messages read from the connection so far
    nsent,           \* messages the client sent so far
    \* ---- RemoteCameraClient
    wire,            \* messages that reached the client, not yet returned by ws.recv()
    arrived,         \* history: every message that reached the client
    cl_pc,           \* _recv_loop: "recv" or "ended"
    cl_latest        \* self._latest_tips

remoteVars == << srv_in, srv_pc, srv_frame, srv_payload, srv_log, srv_read, nsent,
                 wire, arrived, cl_pc, cl_latest >>
srvVars == << srv_in, srv_pc, srv_frame, srv_payload, srv_log, srv_read, nsent >>
clVars == << cl_pc, cl_latest >>

VARIABLES
    \* ---- the calls the application makes on its camera source
    usb_index,       \* the usb_index the camera source was constructed with
    startsLeft,      \* calls of start() the application still makes
    stopsLeft,       \* calls of stop() the application still makes
    spc,             \* position in stop(): "idle", "join", "release", "returned"
    tried,           \* history: the backends the last open tried, in order
    imp_cam,         \* what the module-level tracker of hand_tracker.py holds
    \* ---- RemoteCameraClient, its thread and its connection
    cl_running,      \* self._running
    cl_cap,          \* self._cap
    cl_picam,        \* self._picam is not None
    conn,            \* "none", "connecting", "open", "failed", "lost", "closed"
    snd_pc           \* _run_loop: "off", "connect", "loop", "reading", "sending",
                     \* "sleep", "done"

VARIABLES
    \* ---- the detector call of the iteration in progress
    w_res,           \* worker: what self.hands.process did (res), NoRes between calls
    srv_res,         \* server handler: what hands.process did
    \* ---- threads
    extra,           \* threads in _worker beyond the one wpc follows
    \* ---- calls of the pure parts, on their own
    call,            \* the last construction or ROI computation: arguments and results
    euro             \* a OneEuro1D filter and the history of its update() calls

callVars == << usb_index, startsLeft, stopsLeft, spc, tried, imp_cam >>
clLifeVars == << cl_running, cl_cap, cl_picam, conn, snd_pc >>
lifeVars == << callVars, clLifeVars >>

NoCap == [obj |-> FALSE, dev |-> 0, opened |-> FALSE]

\* no call of the pure parts on their own
NoCall == [op |-> "none"]

\* no detector call in progress
NoRes == [called |-> FALSE, raised |-> FALSE, hands |-> << >>]

\* hands.process(rgb) on a frame with the hands det in view: it returns them
\* (multi_hand_landmarks, None or empty without hands) or it raises
DetectorCall(det, raised) ==
    [called |-> TRUE, raised |-> raised, hands |-> IF raised THEN << >> ELSE det]

\* a detector exception answered with one hand in the middle of the frame
HandsOnRaiseStale == << [tx |-> 500, ty |-> 500, px |-> 500, py |-> 560] >>

\* hand_tracker.py:272-277, server_windows.py:58-63: except Exception: res = None,
\* and getattr(None, "multi_hand_landmarks", None) skips the loop
HandsOnRaise == << >>

\* the hands the extraction loop enumerates
Landmarks(r) == IF r.raised THEN HandsOnRaise ELSE r.hands
USB_INDEX == 0

\* MultiHandTracker.__init__, hand_tracker.py:79-122
InitLocal ==
    /\ running = FALSE
    /\ cap = NoCap
    /\ picam = FALSE
    /\ lockOwner = "free"
    /\ latest_tips = << >>
    /\ last_seen = EmptyMap
    /\ smoothed = << >>
    /\ smoothed_roi = EmptyMap
    /\ filters_screen = EmptyMap
    /\ filters_roi = EmptyMap
    /\ wpc = "idle"
    /\ frame = None
    /\ tips = << >>
    /\ now = 0
    /\ rpc = "idle"
    /\ rret = << >>
    /\ clock = 0
    /\ ncycles = 0
    /\ openFailed = FALSE
    /\ reopened = FALSE
    /\ published = {}
    /\ w_res = NoRes
    /\ extra = 0

\* cv2.VideoCapture(0): raises, or gives a capture that is opened or not
OpenDevice0(res, old) ==
    CASE res = "open" -> [obj |-> TRUE, dev |-> 0, opened |-> TRUE]
      [] res = "closed" -> [obj |-> TRUE, dev |-> 0, opened |-> FALSE]
      [] OTHER -> old

\* start(), hand_tracker.py:128-191, the three backends (prefer_usb is True):
\*   usb: VideoCapture(usb_index) opens and reads a frame
\*   pic: Picamera2 imports, configures and starts
\*   fb:  what cv2.VideoCapture(0) of the final fallback does
StartCams(idx, usb, pic, fb) ==
    LET cap1 == IF usb THEN [obj |-> TRUE, dev |-> idx, opened |-> TRUE] ELSE NoCap
        picam1 == ~cap1.obj /\ pic
        cap2 == IF ~cap1.obj /\ ~picam1 THEN OpenDevice0(fb, NoCap) ELSE cap1
    IN  [cap |-> cap2,
         picam |-> picam1,
         tried |-> << "usb" >> \o (IF cap1.obj THEN << >> ELSE << "picam" >>)
                              \o (IF cap1.obj \/ picam1 THEN << >> ELSE << "dev0" >>),
         failed |-> (~usb /\ ~picam1 /\ fb # "open")]

\* start() with its guard taken out: every call opens a camera and a thread
StartNeverEarly(r) == FALSE

\* lines 125-126 (network_client.py:114-115): if self._running: return
StartReturnsEarly(r) == r

\* start(), hand_tracker.py:124-196.  wpc follows one thread: a thread started
\* while the previous worker is still in _worker is counted in extra.
Start ==
    /\ mode = "local"
    /\ startsLeft > 0
    /\ spc \in {"idle", "returned"}
    /\ startsLeft' = startsLeft - 1
    /\ IF StartReturnsEarly(running)
       THEN UNCHANGED << camVars, wpc, spc, tried, extra >>
       ELSE /\ \E usb \in BOOLEAN, pic \in BOOLEAN, fb \in {"open", "closed", "raise"} :
                  LET r == StartCams(usb_index, usb, pic, fb)
                  IN  /\ cap' = r.cap
                      /\ picam' = r.picam
                      /\ tried' = r.tried
                      /\ openFailed' = r.failed
            /\ running' = TRUE
            /\ wpc' = (IF wpc \in {"idle", "exited"} THEN "top" ELSE wpc)
            /\ extra' = (IF wpc \in {"idle", "exited"} THEN extra ELSE extra + 1)
            /\ spc' = "idle"
            /\ UNCHANGED reopened
    /\ UNCHANGED << lockOwner, frame, tips, now, clock, ncycles >>
    /\ UNCHANGED << dataVars, readerVars, confVars, remoteVars >>
    /\ UNCHANGED << usb_index, stopsLeft, imp_cam, clLifeVars >>
    /\ UNCHANGED << w_res, srv_res, call, euro >>

\* the cv2 branch returning the frame without looking at ret
CvCaptureIgnoreRet(ret) == Some(CvFrame)

\* _capture_frame lines 242-250: what the cv2 branch returns for read()'s ret
CvCapture(ret) == IF ret THEN Some(CvFrame) ELSE None

\* the worker leaving its loop when a cycle has no frame
NoFrameBreak == "exited"

\* _worker lines 257-260: no frame, time.sleep(self._target_dt) and continue
NoFrameNext == "sleep"

\* _worker lines 255-260 with _capture_frame, lines 235-245: up to the frame,
\* or, on a failed read, up to self._cap.release(); the reopen is W_Reopen
W_Capture ==
    /\ mode = "local"
    /\ running
    /\ wpc = "top"
    /\ \/ /\ picam
          /\ \E ok \in BOOLEAN : frame' = IF ok THEN Some(PicamFrame) ELSE None
          /\ wpc' = IF frame' = None THEN NoFrameNext ELSE "detect"
          /\ UNCHANGED cap
       \/ /\ ~picam /\ cap.obj /\ cap.opened
          \* ret is True
          /\ frame' = CvCapture(TRUE)
          /\ wpc' = IF frame' = None THEN NoFrameNext ELSE "detect"
          /\ UNCHANGED cap
       \/ /\ ~picam /\ cap.obj
          \* ret is False (always, on a capture that is not opened): release
          /\ frame' = CvCapture(FALSE)
          /\ wpc' = IF frame' = None THEN "reopen" ELSE "detect"
          /\ cap' = [cap EXCEPT !.opened = FALSE]
       \/ /\ ~picam /\ ~cap.obj
          /\ frame' = None
          /\ wpc' = NoFrameNext
          /\ UNCHANGED cap
    /\ UNCHANGED << running, picam, openFailed, reopened >>
    /\ UNCHANGED << lockOwner, tips, now, clock, ncycles >>
    /\ UNCHANGED << dataVars, readerVars, confVars, lifeVars, remoteVars >>
    /\ UNCHANGED << w_res, extra, srv_res, call, euro >>

\* _capture_frame lines 246-249: self._cap = cv2.VideoCapture(0), return None
W_Reopen ==
    /\ mode = "local"
    /\ wpc = "reopen"
    /\ \E res \in {"open", "closed", "raise"} :
          /\ cap' = OpenDevice0(res, cap)
          /\ reopened' = (reopened \/ res = "open")
    /\ wpc' = NoFrameNext
    /\ UNCHANGED << running, picam, openFailed >>
    /\ UNCHANGED << lockOwner, frame, tips, now, clock, ncycles >>
    /\ UNCHANGED << dataVars, readerVars, confVars, lifeVars, remoteVars >>
    /\ UNCHANGED << w_res, extra, srv_res, call, euro >>

\* lines 262-293: ROI, detector call, extraction and mapping, now = time.time()
W_Detect ==
    /\ mode = "local"
    /\ wpc = "detect"
    /\ \E det \in scene, raised \in BOOLEAN :
          /\ w_res' = DetectorCall(det, raised)
          /\ tips' = ExtractTips(Landmarks(w_res'), frame[1].w, frame[1].h, roi_scale)
    /\ now' = clock
    /\ wpc' = "lock"
    /\ UNCHANGED << frame, lockOwner, clock, ncycles >>
    /\ UNCHANGED << camVars, dataVars, readerVars, confVars, lifeVars, remoteVars >>
    /\ UNCHANGED << extra, srv_res, call, euro >>

\* line 294: with self._lock
W_Lock ==
    /\ mode = "local"
    /\ wpc = "lock"
    /\ lockOwner = "free"
    /\ lockOwner' = "worker"
    /\ wpc' = "update"
    /\ UNCHANGED << frame, tips, now, clock, ncycles >>
    /\ UNCHANGED << camVars, dataVars, readerVars, confVars, lifeVars, remoteVars >>
    /\ UNCHANGED << w_res, extra, srv_res, call, euro >>

\* the state the locked section starts from
CycleStart ==
    [fs |-> filters_screen, fr |-> filters_roi, ls |-> last_seen,
     ns |-> << >>, nr |-> EmptyMap]
\* the state after lines 296-330
CycleEnd == PruneLoop(SmoothTips(CycleStart, tips, now), smoothed, smoothed_roi, now)

\* the lock still held when the worker goes to its sleep
LockKept == "worker"

\* lines 294 and 342-344: the `with self._lock` block ends with the assignment
\* of self._latest_tips, before elapsed is computed and time.sleep is called
LockAfterSwap == "free"

\* lines 296-342 and the release of the lock
W_Update ==
    /\ mode = "local"
    /\ wpc = "update"
    /\ LET st == CycleEnd
           out == BuildOut(st.ns, st.nr)
       IN  /\ filters_screen' = st.fs
           /\ filters_roi' = st.fr
           /\ last_seen' = st.ls
           /\ smoothed' = st.ns
           /\ smoothed_roi' = st.nr
           /\ latest_tips' = Publish(latest_tips, out)
           /\ published' = published \cup {out}
    /\ lockOwner' = LockAfterSwap
    /\ wpc' = "sleep"
    /\ w_res' = NoRes
    /\ UNCHANGED << frame, tips, now, clock, ncycles >>
    /\ UNCHANGED << camVars, readerVars, confVars, lifeVars, remoteVars >>
    /\ UNCHANGED << extra, srv_res, call, euro >>

\* lines 259 and 344-346: time.sleep, then the next iteration; one iteration
\* takes StepMs.  frame and tips are dead after the cycle and are cleared.
W_Sleep ==
    /\ mode = "local"
    /\ wpc = "sleep"
    /\ ncycles < MaxCycles
    /\ clock' = clock + StepMs
    /\ ncycles' = ncycles + 1
    /\ wpc' = "top"
    /\ frame' = None
    /\ tips' = << >>
    /\ UNCHANGED << lockOwner, now >>
    /\ UNCHANGED << camVars, dataVars, readerVars, confVars, lifeVars, remoteVars >>
    /\ UNCHANGED << w_res, extra, srv_res, call, euro >>

\* _worker line 255: while self._running is false, the thread ends; so do the
\* threads counted in extra, which are not followed further
W_Exit ==
    /\ mode = "local"
    /\ wpc = "top"
    /\ ~running
    /\ wpc' = "exited"
    /\ extra' = 0
    /\ UNCHANGED << lockOwner, frame, tips, now, clock, ncycles >>
    /\ UNCHANGED << camVars, dataVars, readerVars, confVars, lifeVars, remoteVars >>
    /\ UNCHANGED << w_res, srv_res, call, euro >>

\* _capture_frame line 243: a self._cap.read() that does not return (the call
\* has no timeout)
W_ReadHangs ==
    /\ mode = "local"
    /\ running
    /\ wpc = "top"
    /\ ~picam /\ cap.obj
    /\ wpc' = "hung"
    /\ UNCHANGED << lockOwner, frame, tips, now, clock, ncycles >>
    /\ UNCHANGED << camVars, dataVars, readerVars, confVars, lifeVars, remoteVars >>
    /\ UNCHANGED << w_res, extra, srv_res, call, euro >>

\* stop(), hand_tracker.py:199: self._running = False
Stop_Call ==
    /\ mode = "local"
    /\ stopsLeft > 0
    /\ spc \in {"idle", "returned"}
    /\ stopsLeft' = stopsLeft - 1
    /\ running' = FALSE
    /\ spc' = "join"
    /\ UNCHANGED << cap, picam, openFailed, reopened >>
    /\ UNCHANGED << lockOwner, wpc, frame, tips, now, clock, ncycles >>
    /\ UNCHANGED << dataVars, readerVars, confVars, remoteVars >>
    /\ UNCHANGED << usb_index, startsLeft, tried, imp_cam, clLifeVars >>
    /\ UNCHANGED << w_res, extra, srv_res, call, euro >>

\* stop(), lines 200-202: self._thread.join(timeout=0.5) returns when the worker
\* has ended, or after the timeout wherever the worker is
Stop_Join ==
    /\ mode = "local"
    /\ spc = "join"
    /\ \E timeout \in BOOLEAN : timeout \/ wpc \in {"idle", "exited"}
    /\ spc' = "release"
    /\ UNCHANGED << lockOwner, wpc, frame, tips, now, clock, ncycles >>
    /\ UNCHANGED << camVars, dataVars, readerVars, confVars, remoteVars >>
    /\ UNCHANGED << usb_index, startsLeft, stopsLeft, tried, imp_cam, clLifeVars >>
    /\ UNCHANGED << w_res, extra, srv_res, call, euro >>

\* stop(), lines 203-214: stop and clear the Picamera2, release and clear the capture
Stop_Release ==
    /\ mode = "local"
    /\ spc = "release"
    /\ picam' = FALSE
    /\ cap' = NoCap
    /\ spc' = "returned"
    /\ UNCHANGED << running, openFailed, reopened >>
    /\ UNCHANGED << lockOwner, wpc, frame, tips, now, clock, ncycles >>
    /\ UNCHANGED << dataVars, readerVars, confVars, remoteVars >>
    /\ UNCHANGED << usb_index, startsLeft, stopsLeft, tried, imp_cam, clLifeVars >>
    /\ UNCHANGED << w_res, extra, srv_res, call, euro >>

\* get_tips line 367: with self._lock
R_Acquire ==
    /\ mode = "local"
    /\ rpc = "idle"
    /\ lockOwner = "free"
    /\ lockOwner' = "reader"
    /\ rpc' = "locked"
    /\ UNCHANGED << rret, wpc, frame, tips, now, clock, ncycles >>
    /\ UNCHANGED << camVars, dataVars, confVars, lifeVars, remoteVars >>
    /\ UNCHANGED << w_res, extra, srv_res, call, euro >>

\* get_tips line 368: return list(self._latest_tips), releasing the lock
R_Return ==
    /\ mode = "local"
    /\ rpc = "locked"
    /\ rret' = latest_tips
    /\ lockOwner' = "free"
    /\ rpc' = "returned"
    /\ UNCHANGED << wpc, frame, tips, now, clock, ncycles >>
    /\ UNCHANGED << camVars, dataVars, confVars, lifeVars, remoteVars >>
    /\ UNCHANGED << w_res, extra, srv_res, call, euro >>

\* the consumer is done with the list
R_Done ==
    /\ mode = "local"
    /\ rpc = "returned"
    /\ rret' = << >>
    /\ rpc' = "idle"
    /\ UNCHANGED << lockOwner, wpc, frame, tips, now, clock, ncycles >>
    /\ UNCHANGED << camVars, dataVars, confVars, lifeVars, remoteVars >>
    /\ UNCHANGED << w_res, extra, srv_res, call, euro >>

(***************************************************************************)
(* The remote path: server_windows.py handle and the receive loop of       *)
(* RemoteCameraClient, network_client.py:169-199.                          *)
(***************************************************************************)
\* the 16:9 frame the client sends (SEND_WIDTH wide)
SentFrame == [w |-> 1280, h |-> 720]

\* detector results on the frames the server decodes
RemoteDetections == { << >>, << HandOut, HandA >>, << HandA, HandEdge >> }

\* what the client side of a connection may send: a JPEG frame (with what the
\* detector will find in it), bytes that do not decode, a text message
ClientMsgs ==
    {[kind |-> "frame", size |-> SentFrame, det |-> d] : d \in RemoteDetections}
    \cup {[kind |-> "junk", size |-> SentFrame, det |-> << >>],
          [kind |-> "text", size |-> SentFrame, det |-> << >>]}

\* what a peer that is not this server may send the client: text that is not
\* JSON, JSON whose top level is not an object, and a JSON object whose "tips"
\* is a list with an item that is not an object ({"tips": [7]})
ForeignMsgs ==
    {[kind |-> "garbage", tips |-> << >>],
     [kind |-> "nonobj", tips |-> << >>],
     [kind |-> "objbad", tips |-> << [json |-> "number"] >>]}

\* a parsed JSON value that is a dict: the non-objects carry their JSON type
IsDict(item) == "json" \notin DOMAIN item

\* server_windows.py:66-74, one detected hand
ServerTip(hand, idx, w, h) ==
    IF Extended(hand)
    THEN Some([hand_idx |-> idx,
               roi |-> << XTip(hand, w), YTip(hand, h) >>,
               screen |-> << IntTrunc(hand.tx * PROJECTOR_W, 1000),
                             IntTrunc(hand.ty * PROJECTOR_H, 1000) >>])
    ELSE None

\* server_windows.py:63-74
ServerTips(det, w, h) ==
    Flatten([i \in 1..Len(det) |-> ServerTip(det[i], i - 1, w, h)])

\* server_windows.py:101, json.dumps({"ts": ..., "tips": tips}), as the client's
\* json.loads reads it back: an object whose "tips" is the list
JsonReply(ts) == [kind |-> "obj", tips |-> ts]

\* server_windows.py:48, isinstance(msg, bytes)
IsBytes(msg) == msg.kind \in {"frame", "junk"}

\* every binary message taken for a frame (the check of imdecode's result left out)
DecodesAnyBytes(msg) == msg.kind \in {"frame", "junk"}

\* server_windows.py:52-55, cv2.imdecode gives an image
Decodes(msg) == msg.kind = "frame"

NoFrame == [kind |-> "none", size |-> SentFrame, det |-> << >>]

\* a connected client (network_client.py:20-31, 164-201) and its handler
InitRemote ==
    /\ srv_in = << >>
    /\ srv_pc = "recv"
    /\ srv_frame = NoFrame
    /\ srv_payload = << >>
    /\ srv_log = << >>
    /\ srv_read = << >>
    /\ nsent = 0
    /\ wire = << >>
    /\ arrived = << >>
    /\ cl_pc = "recv"
    /\ cl_latest = << >>
    /\ srv_res = NoRes

\* the client side sends a message (network_client.py:239 for frames)
ClientSend ==
    /\ mode = "remote"
    /\ nsent < MaxMsgs
    /\ \E m \in ClientMsgs : srv_in' = Append(srv_in, m)
    /\ nsent' = nsent + 1
    /\ UNCHANGED << srv_pc, srv_frame, srv_payload, srv_log, srv_read >>
    /\ UNCHANGED << wire, arrived, clVars, localVars, confVars, lifeVars >>
    /\ UNCHANGED << w_res, extra, srv_res, call, euro >>

\* server_windows.py:46-101: the next message of `async for msg in ws`
SrvRecv ==
    /\ mode = "remote"
    /\ srv_pc = "recv"
    /\ srv_in # << >>
    /\ srv_in' = Tail(srv_in)
    /\ srv_read' = Append(srv_read, Head(srv_in))
    /\ LET msg == Head(srv_in)
       IN  \/ \* lines 106-113: not bytes, ignored
              /\ ~IsBytes(msg)
              /\ UNCHANGED << srv_pc, srv_frame, srv_payload, srv_log, srv_res >>
           \/ \* lines 53-55: imdecode gives None, continue
              /\ IsBytes(msg) /\ ~Decodes(msg)
              /\ UNCHANGED << srv_pc, srv_frame, srv_payload, srv_log, srv_res >>
           \/ \* lines 56-101: detect, extract, build the payload
              /\ IsBytes(msg) /\ Decodes(msg)
              /\ srv_frame' = msg
              /\ \E raised \in BOOLEAN : srv_res' = DetectorCall(msg.det, raised)
              /\ srv_payload' = ServerTips(Landmarks(srv_res'), msg.size.w, msg.size.h)
              /\ srv_log' = Append(srv_log, << "decoded", Len(srv_read) + 1 >>)
              /\ srv_pc' = "send"
    /\ UNCHANGED << nsent, wire, arrived, clVars, localVars, confVars, lifeVars >>
    /\ UNCHANGED << w_res, extra, call, euro >>

\* server_windows.py:102-105: await ws.send(payload); on an exception, return
SrvSend ==
    /\ mode = "remote"
    /\ srv_pc = "send"
    /\ srv_res' = NoRes
    /\ \/ /\ wire' = Append(wire, JsonReply(srv_payload))
          /\ arrived' = Append(arrived, JsonReply(srv_payload))
          /\ srv_log' = Append(srv_log, << "sent", Len(srv_read) >>)
          /\ srv_pc' = "recv"
       \/ /\ srv_pc' = "done"
          /\ UNCHANGED << wire, arrived, srv_log >>
    /\ UNCHANGED << srv_in, srv_frame, srv_payload, srv_read, nsent >>
    /\ UNCHANGED << clVars, localVars, confVars, lifeVars >>
    /\ UNCHANGED << w_res, extra, call, euro >>

RECURSIVE SelectKind(_, _)
\* the messages of a sequence that have the kind, in order
SelectKind(seq, kind) ==
    IF seq = << >> THEN << >>
    ELSE IF Head(seq).kind = kind
         THEN << Head(seq) >> \o SelectKind(Tail(seq), kind)
         ELSE SelectKind(Tail(seq), kind)

\* a peer that does not follow the protocol sends the client a message
ForeignSend ==
    /\ mode = "remote"
    /\ Len(SelectKind(arrived, "garbage") \o SelectKind(arrived, "nonobj")
             \o SelectKind(arrived, "objbad")) < MaxForeign
    /\ \E m \in ForeignMsgs :
          /\ wire' = Append(wire, m)
          /\ arrived' = Append(arrived, m)
    /\ UNCHANGED << srvVars, clVars, localVars, confVars, lifeVars >>
    /\ UNCHANGED << w_res, extra, srv_res, call, euro >>

\* network_client.py:171, `while self._running` after an iteration
RecvLoopNext == IF cl_running THEN "recv" ELSE "ended"

\* network_client.py:194-196, the debug print evaluates tips[0].get('screen')
PrintRaises(ts) == ts # << >> /\ ~IsDict(ts[1])

\* network_client.py:171-199, one iteration of _recv_loop
ClientRecv ==
    /\ mode = "remote"
    /\ cl_pc = "recv"
    /\ wire # << >>
    /\ wire' = Tail(wire)
    /\ LET msg == Head(wire)
       IN  \/ \* json.loads raises: continue
              /\ msg.kind = "garbage"
              /\ cl_pc' = RecvLoopNext
              /\ UNCHANGED cl_latest
           \/ \* data is no dict: data.get raises, caught at line 197, the loop ends
              /\ msg.kind = "nonobj"
              /\ cl_pc' = "ended"
              /\ UNCHANGED cl_latest
           \/ \* lines 184-196: the list is stored, then the print; an exception
              \* of the print is caught at line 197 and the loop ends
              /\ msg.kind \in {"obj", "objbad"}
              /\ cl_latest' = msg.tips
              /\ cl_pc' = (IF PrintRaises(msg.tips) THEN "ended" ELSE RecvLoopNext)
    /\ UNCHANGED << arrived, srvVars, localVars, confVars, lifeVars >>
    /\ UNCHANGED << w_res, extra, srv_res, call, euro >>

\* RemoteCameraClient.get_tips, network_client.py:257-259
ClientGetTips == cl_latest

\* RemoteCameraClient.get_primary, network_client.py:261-273
ClientPrimaryOf(ts) == IF ts = << >> THEN None ELSE ts[1].screen

\* RemoteCameraClient.get_primary, network_client.py:266: tips[0].get("screen")
\* raises AttributeError when the first item is not a dict; nothing catches it
ClientPrimaryRaises(ts) == ts # << >> /\ ~IsDict(ts[1])

NextRemote ==
    \/ ClientSend
    \/ SrvRecv
    \/ SrvSend
    \/ ForeignSend
    \/ ClientRecv

NextLocal ==
    \/ Start
    \/ W_Capture
    \/ W_Reopen
    \/ W_Detect
    \/ W_Lock
    \/ W_Update
    \/ W_Sleep
    \/ R_Acquire
    \/ R_Return
    \/ R_Done

vars == << confVars, localVars, remoteVars, lifeVars, w_res, srv_res, extra, call, euro >>

\* the application starts its camera source once with the default usb_index
\* (main.py:38-39, 47-55); the remote client is taken from the point where it
\* runs and is connected
InitCalls ==
    /\ usb_index = USB_INDEX
    /\ startsLeft = (IF mode = "local" THEN 1 ELSE 0)
    /\ stopsLeft = 0
    /\ spc = "idle"
    /\ tried = << >>
    /\ imp_cam = [cap |-> NoCap, picam |-> FALSE]
    /\ cl_running = (mode = "remote")
    /\ cl_cap = NoCap
    /\ cl_picam = FALSE
    /\ conn = (IF mode = "remote" THEN "open" ELSE "none")
    /\ snd_pc = (IF mode = "remote" THEN "loop" ELSE "off")

\* main.py:36-59: the camera source is the remote client or the local tracker
Init ==
    /\ mode \in {"local", "remote"}
    /\ roi_scale \in RoiScales
    /\ scene = Detections
    /\ InitLocal
    /\ InitRemote
    /\ InitCalls
    /\ call = NoCall
    /\ euro = NoCall

Next ==
    \/ NextLocal
    \/ NextRemote

Spec == Init /\ [][Next]_vars

(***************************************************************************)
(* RemoteCameraClient: start(), stop() and the thread that runs _run_loop, *)
(* network_client.py:33-135 and 161-255.                                   *)
(***************************************************************************)
\* _open_camera, network_client.py:33-111:
\*   usb: VideoCapture(usb_index) reads a frame within three attempts
\*   d0:  VideoCapture(0) reads a frame within three attempts
\*   pic: Picamera2 imports, configures and starts
OpenCamera(idx, usb, d0, pic) ==
    [cap |-> IF usb THEN [obj |-> TRUE, dev |-> idx, opened |-> TRUE]
             ELSE IF d0 THEN [obj |-> TRUE, dev |-> 0, opened |-> TRUE]
             ELSE NoCap,
     picam |-> (~usb /\ ~d0 /\ pic),
     tried |-> << "usb" >> \o (IF usb THEN << >> ELSE << "dev0" >>)
                          \o (IF usb \/ d0 THEN << >> ELSE << "picam" >>)]

\* _run_loop connecting again after its connection has ended
RunLoopRetry == "connect"

\* _run_loop lines 247-255: after the sender loop, or after an exception, the
\* coroutine returns and the thread ends
RunLoopEnd == "done"

\* start(), network_client.py:113-121.  A start() after a stop() whose join
\* timed out is taken only once the previous thread has ended.
Cl_Start ==
    /\ mode = "remote"
    /\ startsLeft > 0
    /\ spc \in {"idle", "returned"}
    /\ startsLeft' = startsLeft - 1
    /\ IF StartReturnsEarly(cl_running)
       THEN UNCHANGED << cl_running, cl_cap, cl_picam, conn, snd_pc, spc, tried >>
       ELSE /\ cl_running \/ snd_pc \in {"off", "done"}
            /\ \E usb \in BOOLEAN, d0 \in BOOLEAN, pic \in BOOLEAN :
                  LET r == OpenCamera(usb_index, usb, d0, pic)
                  IN  /\ cl_cap' = r.cap
                      /\ cl_picam' = r.picam
                      /\ tried' = r.tried
            /\ cl_running' = TRUE
            /\ conn' = "connecting"
            /\ snd_pc' = "connect"
            /\ spc' = "idle"
    /\ UNCHANGED << usb_index, stopsLeft, imp_cam >>
    /\ UNCHANGED << localVars, confVars, remoteVars >>
    /\ UNCHANGED << w_res, extra, srv_res, call, euro >>

\* _run_loop line 164: websockets.connect; a new connection has a new handler
\* on the server and an empty queue, the receiver task starts (line 201)
Cl_Connect ==
    /\ mode = "remote"
    /\ snd_pc = "connect"
    /\ \/ /\ conn' = "open"
          /\ snd_pc' = "loop"
          /\ srv_in' = << >>
          /\ srv_pc' = "recv"
          /\ srv_frame' = NoFrame
          /\ srv_payload' = << >>
          /\ srv_log' = << >>
          /\ srv_read' = << >>
          /\ wire' = << >>
          /\ arrived' = << >>
          /\ cl_pc' = "recv"
          /\ srv_res' = NoRes
          /\ UNCHANGED << nsent, cl_latest >>
       \/ /\ conn' = "failed"
          /\ snd_pc' = RunLoopEnd
          /\ UNCHANGED << remoteVars, srv_res >>
    /\ UNCHANGED << cl_running, cl_cap, cl_picam >>
    /\ UNCHANGED << callVars, localVars, confVars >>
    /\ UNCHANGED << w_res, extra, call, euro >>

\* lines 247-253 and the end of `async with`: the receiver is cancelled and the
\* connection closed
SenderCleanup ==
    /\ cl_pc' = "ended"
    /\ conn' = (IF conn = "open" THEN "closed" ELSE conn)
    /\ snd_pc' = RunLoopEnd

\* sender loop, lines 204-213: the loop test and the start of the capture; the
\* capture is a synchronous call, the event loop runs nothing else until it returns
S_Loop ==
    /\ mode = "remote"
    /\ snd_pc = "loop"
    /\ IF ~cl_running
       THEN SenderCleanup
       ELSE /\ snd_pc' = (IF cl_picam \/ cl_cap.obj THEN "reading" ELSE "sleep")
            /\ UNCHANGED << cl_pc, conn >>
    /\ UNCHANGED << cl_running, cl_cap, cl_picam, cl_latest, wire, arrived, srvVars >>
    /\ UNCHANGED << callVars, localVars, confVars >>
    /\ UNCHANGED << w_res, extra, srv_res, call, euro >>

\* lines 207-239: the capture returns; with a frame the sender resizes, encodes
\* and awaits ws.send, without one it sleeps (lines 215-217)
S_ReadEnd ==
    /\ mode = "remote"
    /\ snd_pc = "reading"
    /\ \E ok \in BOOLEAN : snd_pc' = (IF ok THEN "sending" ELSE "sleep")
    /\ UNCHANGED << cl_running, cl_cap, cl_picam, conn >>
    /\ UNCHANGED << callVars, localVars, confVars, remoteVars >>
    /\ UNCHANGED << w_res, extra, srv_res, call, euro >>

\* a sender that sends a frame only when every earlier frame has its reply
SendAfterReply(sent, replies) == replies >= sent

\* lines 236-239: nothing but the frame decides whether the sender sends; it
\* reads no reply and no counter of replies
SendGate(sent, replies) == TRUE

\* lines 237-245: ws.send completes, then the pacing sleep
S_SendOk ==
    /\ mode = "remote"
    /\ snd_pc = "sending"
    /\ conn = "open"
    /\ nsent < MaxMsgs
    /\ SendGate(nsent, Len(arrived))
    /\ \E d \in scene :
          srv_in' = Append(srv_in, [kind |-> "frame", size |-> SentFrame, det |-> d])
    /\ nsent' = nsent + 1
    /\ snd_pc' = "sleep"
    /\ UNCHANGED << cl_pc, conn >>
    /\ UNCHANGED << srv_pc, srv_frame, srv_payload, srv_log, srv_read >>
    /\ UNCHANGED << cl_running, cl_cap, cl_picam, cl_latest, wire, arrived >>
    /\ UNCHANGED << callVars, localVars, confVars >>
    /\ UNCHANGED << w_res, srv_res, extra, call, euro >>

\* lines 240-242: imencode or ws.send raises, the loop is left
S_SendFail ==
    /\ mode = "remote"
    /\ snd_pc = "sending"
    /\ SenderCleanup
    /\ UNCHANGED << srv_in, nsent >>
    /\ UNCHANGED << srv_pc, srv_frame, srv_payload, srv_log, srv_read >>
    /\ UNCHANGED << cl_running, cl_cap, cl_picam, cl_latest, wire, arrived >>
    /\ UNCHANGED << callVars, localVars, confVars >>
    /\ UNCHANGED << w_res, srv_res, extra, call, euro >>

\* lines 217 and 245: asyncio.sleep(interval) is over
S_Sleep ==
    /\ mode = "remote"
    /\ snd_pc = "sleep"
    /\ snd_pc' = "loop"
    /\ UNCHANGED << cl_running, cl_cap, cl_picam, conn >>
    /\ UNCHANGED << callVars, localVars, confVars, remoteVars >>
    /\ UNCHANGED << w_res, extra, srv_res, call, euro >>

\* the connection breaks: ws.recv() raises once the queued messages are read,
\* the receiver ends (line 197); the sender goes on until its next send raises
ConnLost ==
    /\ mode = "remote"
    /\ conn = "open"
    /\ wire = << >> \/ cl_pc = "ended"
    /\ conn' = "lost"
    /\ cl_pc' = "ended"
    /\ UNCHANGED << cl_running, cl_cap, cl_picam, snd_pc, cl_latest, wire, arrived, srvVars >>
    /\ UNCHANGED << callVars, localVars, confVars >>
    /\ UNCHANGED << w_res, extra, srv_res, call, euro >>

\* the receiver task takes a message: the connection is open and the event loop
\* is not inside the sender's capture
L_ClientRecv ==
    /\ conn = "open"
    /\ snd_pc # "reading"
    /\ ClientRecv

\* the handler on the server, while the connection is open
L_SrvRecv ==
    /\ conn = "open"
    /\ SrvRecv

L_SrvSend ==
    /\ conn = "open"
    /\ SrvSend

\* stop(), network_client.py:124: self._running = False
Cl_Stop_Call ==
    /\ mode = "remote"
    /\ stopsLeft > 0
    /\ spc \in {"idle", "returned"}
    /\ stopsLeft' = stopsLeft - 1
    /\ cl_running' = FALSE
    /\ spc' = "join"
    /\ UNCHANGED << cl_cap, cl_picam, conn, snd_pc >>
    /\ UNCHANGED << usb_index, startsLeft, tried, imp_cam >>
    /\ UNCHANGED << localVars, confVars, remoteVars >>
    /\ UNCHANGED << w_res, extra, srv_res, call, euro >>

\* stop(), lines 125-127: join(timeout=1.0) returns when the thread has ended,
\* or after the timeout
Cl_Stop_Join ==
    /\ mode = "remote"
    /\ spc = "join"
    /\ \E timeout \in BOOLEAN : timeout \/ snd_pc \in {"off", "done"}
    /\ spc' = "release"
    /\ UNCHANGED << usb_index, startsLeft, stopsLeft, tried, imp_cam >>
    /\ UNCHANGED << clLifeVars, localVars, confVars, remoteVars >>
    /\ UNCHANGED << w_res, extra, srv_res, call, euro >>

\* stop(), lines 128-135
Cl_Stop_Release ==
    /\ mode = "remote"
    /\ spc = "release"
    /\ cl_picam' = FALSE
    /\ cl_cap' = NoCap
    /\ spc' = "returned"
    /\ UNCHANGED << cl_running, conn, snd_pc >>
    /\ UNCHANGED << usb_index, startsLeft, stopsLeft, tried, imp_cam >>
    /\ UNCHANGED << localVars, confVars, remoteVars >>
    /\ UNCHANGED << w_res, extra, srv_res, call, euro >>

(***************************************************************************)
(* The lifecycle: the application calls start() and stop() on its camera   *)
(* source, after the import of hand_tracker.py has started the module-level*)
(* tracker (hand_tracker.py:379-390, main.py:7).                           *)
(***************************************************************************)
UsbIndexes == {0, 1}
\* main.py:52, roi_scale=0.98
MainRoiScale == 980

\* one hand that comes and goes
LifeDetections == { << >>, << HandA >> }

\* what the module-level tracker holds after its start(): the default device,
\* or nothing on a machine where no backend opens
ImportOutcomes ==
    {[cap |-> StartCams(USB_INDEX, usb, FALSE, "raise").cap, picam |-> FALSE] :
        usb \in BOOLEAN}

InitLife ==
    /\ mode \in {"local", "remote"}
    /\ roi_scale = MainRoiScale
    /\ scene = LifeDetections
    /\ InitLocal
    /\ InitRemote
    /\ usb_index \in (IF mode = "local" THEN UsbIndexes ELSE {USB_INDEX})
    /\ startsLeft = MaxStarts
    /\ stopsLeft = MaxStops
    /\ spc = "idle"
    /\ tried = << >>
    /\ imp_cam \in ImportOutcomes
    /\ cl_running = FALSE
    /\ cl_cap = NoCap
    /\ cl_picam = FALSE
    /\ conn = "none"
    /\ snd_pc = "off"
    /\ call = NoCall
    /\ euro = NoCall

NextLife ==
    \/ Start
    \/ W_Capture
    \/ W_Reopen
    \/ W_Detect
    \/ W_Lock
    \/ W_Update
    \/ W_Sleep
    \/ W_Exit
    \/ W_ReadHangs
    \/ Stop_Call
    \/ Stop_Join
    \/ Stop_Release
    \/ Cl_Start
    \/ Cl_Connect
    \/ S_Loop
    \/ S_ReadEnd
    \/ S_SendOk
    \/ S_SendFail
    \/ S_Sleep
    \/ ConnLost
    \/ L_ClientRecv
    \/ L_SrvRecv
    \/ L_SrvSend
    \/ Cl_Stop_Call
    \/ Cl_Stop_Join
    \/ Cl_Stop_Release

SpecLife == InitLife /\ [][NextLife]_vars

(***************************************************************************)
(* The pure parts on their own: construction of a tracker                  *)
(* (hand_tracker.py:79-122) and the ROI rectangle with its gate and mapping*)
(* (hand_tracker.py:263-291, camera_service.py:160-207).                   *)
(***************************************************************************)
\* constructor arguments: roi_scale (per-mille), screen_size, max_hands
Configs ==
    [roi_scale : {-500, 0, 500, 950, 1000, 1500},
     screen_w : {-1, 0, 1920},
     screen_h : {0, 1080},
     max_hands : {0, 8}]

\* MultiHandTracker.__init__, lines 89-122: the arguments are stored as given,
\* none is compared with anything; the only call that can raise is
\* mp_hands.Hands(max_num_hands=max_hands, ...), lines 91-95
ConstructOk(cfg, mp_raises) == ~mp_raises

\* the constructor is called; a run looks at one call of one pure part, or at
\* one filter
Construct ==
    /\ call = NoCall
    /\ euro.n = 0
    /\ \E cfg \in Configs, mp_raises \in BOOLEAN :
          /\ mp_raises => cfg.max_hands <= 0
          /\ call' = [op |-> "construct", cfg |-> cfg, ok |-> ConstructOk(cfg, mp_raises)]
    /\ UNCHANGED << confVars, localVars, remoteVars, lifeVars, w_res, srv_res, extra, euro >>

\* frame sizes (h, w = frame.shape[:2]): what cv2 and Picamera2 are asked for,
\* 16:9 frames, and frames wider than 16:9
FrameSizes ==
    {CvFrame, PicamFrame, [w |-> 1280, h |-> 720], [w |-> 1280, h |-> 480], [w |-> 320, h |-> 176]}

\* ROI scales in (0, 1], per-mille
ValidScales == {1, 500, 950, 980, 1000}

\* pixel columns or rows around the edges of a centered span of len in total
EdgePixels(total, len) ==
    LET a == (total - len) \div 2
    IN  {p \in {0, a - 1, a, a + 1, total \div 2, a + len - 1, a + len, a + len + 1, total - 1} : p >= 0}

\* lines 263-269 and 284-291 for one pixel (x_tip, y_tip) of an extended hand
RoiCall ==
    /\ call = NoCall
    /\ euro.n = 0
    /\ \E fr \in FrameSizes, scale \in ValidScales :
       \E x \in EdgePixels(fr.w, (fr.w * scale) \div 1000),
          y \in EdgePixels(fr.h, (((fr.w * scale) \div 1000) * 9) \div 16) :
          call' = [op |-> "roi", w |-> fr.w, h |-> fr.h, scale |-> scale,
                   roi_w |-> RoiW(fr.w, scale),
                   roi_h |-> RoiH(fr.w, scale),
                   x_start |-> XStart(fr.w, scale),
                   y_start |-> YStart(fr.w, fr.h, scale),
                   x_end |-> XEnd(fr.w, scale),
                   y_end |-> YEnd(fr.w, fr.h, scale),
                   x |-> x, y |-> y,
                   accepted |-> InRoi(x, y, fr.w, fr.h, scale),
                   screen |-> << ScreenX(x, fr.w, scale), ScreenY(y, fr.w, fr.h, scale) >>]
    /\ UNCHANGED << confVars, localVars, remoteVars, lifeVars, w_res, srv_res, extra, euro >>


(***************************************************************************)
(* OneEuro1D on its own, in floating point: hand_tracker.py:15-69.         *)
(* A float is m * 2^e with |m| < 2^FpBits, normalised (2^(FpBits-1) <= |m|)*)
(* or zero; every operation gives the nearest float of the exact result,   *)
(* ties to even, as Python's float does with 53 bits.  There is no         *)
(* overflow or underflow in the range of the filter's values.              *)
(***************************************************************************)
RECURSIVE Pow2(_)
Pow2(n) == IF n = 0 THEN 1 ELSE 2 * Pow2(n - 1)

FZero == [m |-> 0, e |-> 0]
FNeg(a) == [m |-> -a.m, e |-> a.e]
FAbs(a) == [m |-> Abs(a.m), e |-> a.e]

\* the float nearest to (n / d) * 2^e, for n >= 0 and d > 0
RECURSIVE FNorm(_, _, _)
FNorm(n, d, e) ==
    IF n = 0 THEN FZero
    ELSE IF n >= d * Pow2(FpBits) THEN FNorm(n, 2 * d, e + 1)
    ELSE IF n < d * Pow2(FpBits - 1) THEN FNorm(2 * n, d, e - 1)
    ELSE LET q == n \div d
             rem == n % d
             m == IF 2 * rem > d \/ (2 * rem = d /\ q % 2 = 1) THEN q + 1 ELSE q
         IN  IF m = Pow2(FpBits) THEN [m |-> Pow2(FpBits - 1), e |-> e + 1]
             ELSE [m |-> m, e |-> e]

FRound(n, d, e) == IF n >= 0 THEN FNorm(n, d, e) ELSE FNeg(FNorm(-n, d, e))

\* float(k) of an int
FInt(k) == FRound(k, 1, 0)

\* a + b: an operand below an eighth of the other's last place does not count
FAdd(a, b) ==
    IF a.m = 0 THEN b
    ELSE IF b.m = 0 THEN a
    ELSE IF a.e - b.e > FpBits + 2 THEN a
    ELSE IF b.e - a.e > FpBits + 2 THEN b
    ELSE LET e == Min(a.e, b.e)
         IN  FRound(a.m * Pow2(a.e - e) + b.m * Pow2(b.e - e), 1, e)

FSub(a, b) == FAdd(a, FNeg(b))
FMul(a, b) == FRound(a.m * b.m, 1, a.e + b.e)
\* a / b, b not zero
FDiv(a, b) == FRound(IF b.m > 0 THEN a.m ELSE -a.m, Abs(b.m), a.e - b.e)

FLe(a, b) == FSub(b, a).m >= 0
FMax(a, b) == IF FLe(a, b) THEN b ELSE a
FMin(a, b) == IF FLe(a, b) THEN a ELSE b

FOne == FInt(1)
\* math.pi
F_PI == FRound(355, 113, 0)
\* line 57: 1e-3
F_MIN_DT == FRound(1, 1000, 0)
\* lines 306-307: min_cutoff = 1.0, beta = 0.007 of the screen filters
F_MIN_CUTOFF == FInt(1)
F_BETA == FRound(7, 1000, 0)

\* _alpha, lines 27-29
FAlpha(dt, cutoff) ==
    LET r == FMul(FMul(FMul(FInt(2), F_PI), cutoff), dt)
    IN  IF r.m > 0 THEN FDiv(r, FAdd(r, FOne)) ELSE FOne

\* _LowPass, lines 15-25, built with alpha = 1.0: the value apply(v) returns and
\* stores, lp the [seeded, s] of the instance
FLowPass(v, lp) ==
    IF ~lp.seeded THEN v
    ELSE FAdd(FMul(FOne, v), FMul(FSub(FOne, FOne), lp.s))

NoLowPass == [seeded |-> FALSE, s |-> FZero]

\* OneEuro1D.__init__, lines 33-42
EuroFresh ==
    [seeded |-> FALSE, x_prev |-> FZero, dx_prev |-> FZero, last_t |-> FZero,
     lp_x |-> NoLowPass, lp_dx |-> NoLowPass]

\* lines 60 and 64: a * x + (1 - a) * x_prev
FBlend(a, x, prev) == FAdd(FMul(a, x), FMul(FSub(FOne, a), prev))

\* OneEuro1D.update(x, t), lines 51-69: the filter after the call; the value
\* returned is its x_prev
FOneEuroUpdate(f, x, t) ==
    IF ~f.seeded
    THEN [f EXCEPT !.seeded = TRUE, !.last_t = t, !.x_prev = x, !.dx_prev = FZero]
    ELSE LET dt == FMax(F_MIN_DT, FSub(t, f.last_t))
             dx == FDiv(FSub(x, f.x_prev), dt)
             a_d == FAlpha(dt, FOne)
             edx == FLowPass(FBlend(a_d, dx, f.dx_prev), f.lp_dx)
             cutoff == FAdd(F_MIN_CUTOFF, FMul(F_BETA, FAbs(edx)))
             a == FAlpha(dt, cutoff)
             filtered == FLowPass(FBlend(a, x, f.x_prev), f.lp_x)
         IN  [seeded |-> TRUE, x_prev |-> filtered, dx_prev |-> edx, last_t |-> t,
              lp_x |-> [seeded |-> TRUE, s |-> filtered],
              lp_dx |-> [seeded |-> TRUE, s |-> edx]]

\* raw inputs (screen coordinates) and the steps between the timestamps of
\* successive calls, in 1/64 s: an earlier timestamp, the same one, 1/64, 1/16
RawInputs == {3, 100, 107}
TimeSteps == {-1, 0, 1, 4}

\* a new filter, no call yet; tn is the timestamp of the last call in 1/64 s
EuroStart ==
    [op |-> "euro", f |-> EuroFresh, n |-> 0, tn |-> 8,
     raw |-> 0, ret |-> FZero, prev |-> FZero, lo |-> 0, hi |-> 0, same |-> TRUE]

\* one call of update(x, t)
EuroUpdate ==
    /\ euro.op = "euro"
    /\ call = NoCall
    /\ euro.n < MaxCalls
    /\ \E x \in RawInputs, step \in TimeSteps :
          LET tn == IF euro.n = 0 THEN euro.tn ELSE euro.tn + step
              f == FOneEuroUpdate(euro.f, FInt(x), FRound(tn, 64, 0))
          IN  euro' = [op |-> "euro", f |-> f, n |-> euro.n + 1, tn |-> tn,
                       raw |-> x, ret |-> f.x_prev, prev |-> euro.ret,
                       lo |-> IF euro.n = 0 THEN x ELSE Min(euro.lo, x),
                       hi |-> IF euro.n = 0 THEN x ELSE Max(euro.hi, x),
                       same |-> (euro.n = 0 \/ (euro.same /\ x = euro.raw))]
    /\ UNCHANGED << confVars, localVars, remoteVars, lifeVars, w_res, srv_res, extra, call >>

\* a tracker that is not started, and a new filter
InitPure ==
    /\ mode = "local"
    /\ roi_scale = MainRoiScale
    /\ scene = LifeDetections
    /\ InitLocal
    /\ InitRemote
    /\ InitCalls
    /\ call = NoCall
    /\ euro = EuroStart

NextPure ==
    \/ Construct
    \/ RoiCall
    \/ EuroUpdate

SpecPure == InitPure /\ [][NextPure]_vars


(***************************************************************************)
(* Properties.                                                             *)
(***************************************************************************)
TipIdSet(ts) == {ts[i].hand_idx : i \in 1..Len(ts)}
ItemOf(ts, hid) == ts[CHOOSE i \in 1..Len(ts) : ts[i].hand_idx = hid]

\* C1: under every interleaving of get_tips() calls with worker cycles, the list
\* a get_tips() call returns is the initial empty list or, item for item, the
\* snapshot one completed cycle built; it never mixes items of two cycles.
C1_ReturnedIsOneCycle ==
    rpc = "returned" => (rret = << >> \/ rret \in published)

\* C1 witness: a consumer holds a non-empty list of an earlier cycle while the
\* worker has already published a different snapshot.
C1_Witness ==
    /\ rpc = "returned"
    /\ rret # << >>
    /\ rret # latest_tips
    /\ Cardinality(published) >= 2

StrictlyAscending(ts) ==
    \A i \in 1..Len(ts) - 1 : ts[i].hand_idx < ts[i + 1].hand_idx

\* the screen point of the entry with the lowest hand_idx
LowestScreen(ts) ==
    ts[CHOOSE i \in 1..Len(ts) : \A j \in 1..Len(ts) : ts[i].hand_idx <= ts[j].hand_idx].screen

OrderedWithPrimary(ts, primary) ==
    /\ StrictlyAscending(ts)
    /\ (primary = None) <=> (ts = << >>)
    /\ ts # << >> => primary = LowestScreen(ts)

\* every message that reached the client is a reply of the server
Conforming == \A i \in 1..Len(arrived) : arrived[i].kind = "obj"

\* C2: in every reachable state the list of get_tips() is in strictly ascending
\* hand_idx order, and get_primary() is None exactly when the list is empty and
\* otherwise the screen point of the lowest hand_idx; for MultiHandTracker, and
\* for RemoteCameraClient when the messages are the server's.
C2_OrderedPrimary ==
    /\ OrderedWithPrimary(latest_tips, PrimaryOf(latest_tips))
    /\ Conforming => OrderedWithPrimary(ClientGetTips, ClientPrimaryOf(ClientGetTips))

\* C2 witness: slot 1 was smoothed before slot 0 was retained, so the dict holds
\* 1 before 0 and the snapshot has both.
C2_Witness ==
    /\ DictKeys(smoothed) = << 1, 0 >>
    /\ Len(latest_tips) = 2

C4_GraceWindow ==
    [][(wpc = "update" /\ wpc' = "sleep") =>
        \A i \in 1..Len(latest_tips) :
            LET it == latest_tips[i]
                hid == it.hand_idx
                age == now - (IF hid \in DOMAIN last_seen THEN last_seen[hid] ELSE 0)
            IN  hid \notin TipIdSet(tips) =>
                  /\ age < GRACE_MS =>
                        /\ hid \in TipIdSet(latest_tips')
                        /\ ItemOf(latest_tips', hid).screen = it.screen
                  /\ age > GRACE_MS => hid \notin TipIdSet(latest_tips')
      ]_vars

\* C4 witness: a cycle has completed in which a slot without an accepted tip
\* was kept (it is in the snapshot and was last seen before this cycle's now).
C4_Witness ==
    /\ wpc = "sleep"
    /\ \E i \in 1..Len(latest_tips) :
          /\ latest_tips[i].hand_idx \notin TipIdSet(tips)
          /\ last_seen[latest_tips[i].hand_idx] < now

\* C5: at the end of every worker iteration, no slot whose last accepted
\* detection is more than the grace window ago is still in the list of
\* get_tips() (a slot that gets no further detection goes away, also when the
\* captures fail).
C5_StaleSlotsGo ==
    (running /\ wpc = "sleep") =>
        \A i \in 1..Len(latest_tips) :
            latest_tips[i].hand_idx \in DOMAIN last_seen
            /\ clock - last_seen[latest_tips[i].hand_idx] <= GRACE_MS

\* C6: a slot the prune evicts has no filter pair after that cycle, and a slot
\* created in a cycle (it had no last_seen entry) is published at the raw
\* mapped point of that cycle.
C6_FiltersDiscarded ==
    [][(wpc = "update" /\ wpc' = "sleep") =>
        /\ \A h \in DOMAIN filters_screen' \cup DOMAIN filters_roi' : h \in DOMAIN last_seen'
        /\ \A i \in 1..Len(tips) :
              tips[i].hand_idx \notin DOMAIN last_seen =>
                  ItemOf(latest_tips', tips[i].hand_idx).screen = tips[i].screen
      ]_vars

InOutputSpace(ts) ==
    \A i \in 1..Len(ts) :
        /\ 0 <= ts[i].screen[1] /\ ts[i].screen[1] <= SCREEN_W
        /\ 0 <= ts[i].screen[2] /\ ts[i].screen[2] <= SCREEN_H

\* C7: every screen point of every published snapshot, smoothed or retained,
\* lies in [0, screen_w] x [0, screen_h].
C7_InOutputSpace ==
    /\ InOutputSpace(latest_tips)
    /\ \A snap \in published : InOutputSpace(snap)

\* C7 witness: a snapshot holds a point the filter moved off its raw input
\* (the filter has a velocity estimate) and a point at the corner of the
\* output space.
C7_Witness ==
    /\ \E h \in DOMAIN filters_screen : filters_screen[h].x.dx_prev # 0
    /\ \E snap \in published : \E i \in 1..Len(snap) :
          snap[i].screen = << SCREEN_W, SCREEN_H >>
    /\ latest_tips # << >>

\* hand_idx and screen point of each item of a list of tips
IdAndScreen(ts) == {[hand_idx |-> ts[i].hand_idx, screen |-> ts[i].screen] : i \in 1..Len(ts)}

\* C8: for the frame the server is replying to, the hand_idx values it emits and
\* their screen points are those of the tips the local extract/map step accepts
\* for the same frame size and detector output; no emitted tip has its pixel
\* outside the ROI and every emitted screen point is in the output space.
C8_ServerAsLocal ==
    srv_pc = "send" =>
        /\ IdAndScreen(srv_payload) =
              IdAndScreen(ExtractTips(srv_frame.det, srv_frame.size.w, srv_frame.size.h, roi_scale))
        /\ \A i \in 1..Len(srv_payload) :
              /\ InRoi(srv_payload[i].roi[1], srv_payload[i].roi[2],
                       srv_frame.size.w, srv_frame.size.h, roi_scale)
              /\ 0 <= srv_payload[i].screen[1] /\ srv_payload[i].screen[1] <= PROJECTOR_W
              /\ 0 <= srv_payload[i].screen[2] /\ srv_payload[i].screen[2] <= PROJECTOR_H

\* the numbers (positions in the connection's input) of the frames read
FrameNumbers == {n \in 1..Len(srv_read) : srv_read[n].kind = "frame"}
LoggedNumbers(what) == {srv_log[j][2] : j \in {k \in 1..Len(srv_log) : srv_log[k][1] = what}}

\* C9: on a connection, the replies the server has sent are, in order, one per
\* frame it read and decoded, the reply to a frame is sent before the next
\* message is read, and a message that is not bytes or does not decode gets
\* none; only a frame whose ws.send is pending, or raised and ended the handler,
\* has no reply.
C9_OneReplyPerFrame ==
    LET frames == SelectKind(srv_read, "frame")
        replies == SelectKind(arrived, "obj")
        nrep == Len(replies)
    IN  /\ \A j \in 1..Len(srv_log) :
              /\ srv_log[j][1] = (IF j % 2 = 1 THEN "decoded" ELSE "sent")
              /\ j % 2 = 0 => srv_log[j][2] = srv_log[j - 1][2]
              /\ j > 2 => srv_log[j - 2][2] < srv_log[j][2]
        /\ LoggedNumbers("decoded") = FrameNumbers
        /\ nrep = Cardinality(LoggedNumbers("sent"))
        /\ nrep = IF srv_pc = "recv" THEN Len(frames) ELSE Len(frames) - 1
        /\ \A k \in 1..nrep : \E raised \in BOOLEAN :
              replies[k] = JsonReply(ServerTips(Landmarks(DetectorCall(frames[k].det, raised)),
                                                frames[k].size.w, frames[k].size.h))

\* C9 witness: the server read a text message, bytes that do not decode and
\* two frames with different detections, and has replied to both frames.
C9_Witness ==
    /\ srv_pc = "recv"
    /\ Len(SelectKind(arrived, "obj")) = 2
    /\ arrived[1] # arrived[2]
    /\ \E n \in 1..Len(srv_read) : srv_read[n].kind \in {"junk", "text"}

RECURSIVE LastObjTips(_)
\* the tips of the last JSON object of a sequence of messages, [] when none
LastObjTips(seq) ==
    IF seq = << >> THEN << >>
    ELSE IF seq[Len(seq)].kind \in {"obj", "objbad"} THEN seq[Len(seq)].tips
         ELSE LastObjTips(SubSeq(seq, 1, Len(seq) - 1))

\* C10: once the client has nothing left to read (or its receive loop is over),
\* get_tips() is the tips list of the last message that reached it and parsed
\* as a JSON object, the empty list when there is none.
C10_LatestObject ==
    (wire = << >> \/ cl_pc = "ended") => ClientGetTips = LastObjTips(arrived)

\* C14: a reopen after a failed read gives a capture on the device the capture
\* it replaces was on (the one start() opened), whatever usb_index is.
C14_ReopensSameDevice ==
    [][(wpc = "reopen" /\ wpc' # "reopen" /\ cap.obj /\ cap'.obj) => cap'.dev = cap.dev]_vars

\* the worker's position after a step it takes from pc (the read that does not
\* return apart)
WorkerFollows(pc, nxt, fr) ==
    CASE pc = "top" -> (IF fr = None THEN nxt \in {"reopen", "sleep"} ELSE nxt = "detect")
      [] pc = "reopen" -> nxt = "sleep" /\ fr = None
      [] pc = "detect" -> nxt = "lock"
      [] pc = "lock" -> nxt = "update"
      [] pc = "update" -> nxt = "sleep"
      [] pc = "sleep" -> nxt = "top"
      [] OTHER -> FALSE

\* C15: while the tracker runs, a worker step never ends the loop: a cycle
\* without a frame (a failed read, with or without reopen) goes to the sleep and
\* from there to the next capture, a cycle with a frame goes through detection
\* to the locked section, which publishes the snapshot it built; the worker
\* ends only at the loop test, when _running is false.
C15_FailuresKeepLooping ==
    [][/\ (running /\ wpc' # wpc /\ wpc \notin {"idle", "exited"} /\ wpc' # "hung") =>
              WorkerFollows(wpc, wpc', frame')
       /\ (wpc' = "exited" /\ wpc # "exited") => (~running /\ wpc = "top")
       /\ (wpc = "update" /\ wpc' # "update") =>
              /\ frame # None
              /\ latest_tips' = BuildOut(smoothed', smoothed_roi')
              /\ latest_tips' \in published'
      ]_vars

\* C15 witness: no backend opened in start(), reads failed in two cycles, a
\* reopen gave a capture and the cycle after it read a frame and published a tip.
C15_Witness ==
    /\ openFailed /\ reopened /\ running
    /\ ncycles >= 2
    /\ wpc = "sleep" /\ frame # None
    /\ latest_tips # << >>

\* C17: in every state after stop() has returned the tracker holds no camera
\* backend: self._cap and self._picam are cleared.
C17_StoppedHoldsNothing ==
    spc = "returned" => (~cap.obj /\ ~picam)

\* C18: after stop() has returned no worker is left waiting in a camera read
\* that does not return (such a worker never reaches the end of its loop).
C18_NoWorkerWaitsForever ==
    spc = "returned" => wpc # "hung"

\* C11: the consumer's calls never raise: with the list the receive loop has
\* stored, get_primary() of the client returns a point or None.
C11_ConsumerNeverRaises == ~ClientPrimaryRaises(ClientGetTips)

\* C13: the backends start() or _open_camera() has tried are, in order, the
\* configured USB index, device 0, Picamera2, each tried only after the one
\* before it failed, and at most one backend is held afterwards.
C13_BackendOrder ==
    /\ \E n \in 0..3 : tried = SubSeq(<< "usb", "dev0", "picam" >>, 1, n)
    /\ ~(cap.obj /\ picam)
    /\ ~(cl_cap.obj /\ cl_picam)

\* C16: a start() on a source that is running changes nothing: no camera is
\* opened, no thread started, no field written.
C16_StartIdempotent ==
    [][(startsLeft' < startsLeft /\ (IF mode = "local" THEN running ELSE cl_running))
        => UNCHANGED << confVars, localVars, remoteVars, clLifeVars,
                        usb_index, stopsLeft, spc, tried, imp_cam >>]_vars

C16_Witness ==
    /\ startsLeft = MaxStarts - 2
    /\ stopsLeft = MaxStops
    /\ \/ mode = "local" /\ running /\ ncycles >= 1
       \/ mode = "remote" /\ cl_running /\ conn = "open" /\ nsent >= 1

\* C12: once the client's connection has failed to open or has ended, the
\* stored tips never change and no connection is made, until a start() that
\* follows a stop().
C12_NoReconnect ==
    [][(mode = "remote" /\ conn \in {"failed", "lost", "closed"})
        => /\ cl_latest' = cl_latest
           /\ conn' # conn => (startsLeft' < startsLeft /\ ~cl_running /\ stopsLeft < MaxStops)
      ]_vars

C12_Witness ==
    /\ conn = "lost"
    /\ cl_running
    /\ snd_pc = "done"
    /\ cl_latest # << >>
    /\ startsLeft > 0

\* C19: no camera backend is held by two sources at once: the tracker the
\* import of hand_tracker started and the source main() starts never have an
\* open capture on the same device, nor Picamera2 both.
C19_OneHolderPerBackend ==
    /\ ~(imp_cam.cap.opened /\ cap.opened /\ imp_cam.cap.dev = cap.dev)
    /\ ~(imp_cam.cap.opened /\ cl_cap.opened /\ imp_cam.cap.dev = cl_cap.dev)
    /\ ~(imp_cam.picam /\ (picam \/ cl_picam))

\* C20: while the sender is inside a capture or a send, a message that has
\* reached the client can be taken by the receiver.
C20_ReceiverNotBlocked ==
    (mode = "remote" /\ conn = "open" /\ cl_pc = "recv" /\ wire # << >>
        /\ snd_pc \in {"reading", "sending"})
    => ENABLED L_ClientRecv

\* the state a worker cycle without hands leaves, from the state before it
ZeroHandsCycle == PruneLoop(SmoothTips(CycleStart, << >>, now), smoothed, smoothed_roi, now)

\* C22: a detector call that raises is not propagated: the worker goes on to
\* its locked section and the cycle writes the filters, last_seen, the slots
\* and the snapshot that a cycle with zero hands writes; the server replies
\* with the empty tips list.
C22_DetectorFailureIsNoHands ==
    [][/\ (w_res'.raised /\ ~w_res.called) => (wpc' = "lock" /\ tips' = << >>)
       /\ (w_res.raised /\ wpc = "update" /\ wpc' # "update")
            => /\ wpc' = "sleep"
               /\ filters_screen' = ZeroHandsCycle.fs
               /\ filters_roi' = ZeroHandsCycle.fr
               /\ last_seen' = ZeroHandsCycle.ls
               /\ smoothed' = ZeroHandsCycle.ns
               /\ smoothed_roi' = ZeroHandsCycle.nr
               /\ latest_tips' = BuildOut(ZeroHandsCycle.ns, ZeroHandsCycle.nr)
       /\ (srv_res'.raised /\ ~srv_res.called) => (srv_pc' = "send" /\ srv_payload' = << >>)
       /\ (srv_res.raised /\ srv_pc = "send" /\ srv_pc' = "recv")
            => wire' = Append(wire, JsonReply(<< >>))
      ]_vars

C22_Witness ==
    /\ w_res.raised
    /\ wpc = "update"
    /\ smoothed # << >>
    /\ ncycles >= 1

\* C26: the worker holds the snapshot lock only in its locked section: never at
\* the capture, the reopen, the detector call or the sleep.
C26_LockOnlyForSwap ==
    /\ lockOwner = "worker" <=> wpc = "update"
    /\ (rpc = "idle" /\ wpc \in {"top", "reopen", "detect", "lock", "sleep"}) => ENABLED R_Acquire

C26_Witness ==
    /\ lockOwner = "worker"
    /\ wpc = "update"
    /\ rpc = "idle"
    /\ ncycles >= 1
    /\ tips # << >>

\* a detected hand that fails the extension test or the ROI test of the frame
FailsTests(hand, w, h, scale) ==
    LET x == IntTrunc(hand.tx * w, 1000)
        y == IntTrunc(hand.ty * h, 1000)
        rw == IntTrunc(w * scale, 1000)
        rh == IntTrunc(rw * 9, 16)
        x0 == (w - rw) \div 2
        y0 == (h - rh) \div 2
    IN  \/ (hand.tx - hand.px) * (hand.tx - hand.px)
             + (hand.ty - hand.py) * (hand.ty - hand.py) <= EXT_SQ
        \/ x < x0 \/ x > x0 + rw
        \/ y < y0 \/ y > y0 + rh

\* the indexes (hand_idx) of the detections of this cycle that fail a test
FailedSlots ==
    IF frame = None THEN {}
    ELSE {i - 1 : i \in {j \in 1..Len(w_res.hands) :
                            FailsTests(w_res.hands[j], frame[1].w, frame[1].h, roi_scale)}}

\* C27: in the cycle's locked section the slot of a detection that failed a
\* test keeps its filters and its last_seen, and is retained or evicted by the
\* grace window alone, as for an absent hand.
C27_FailedDetectionLeavesSlot ==
    [][(wpc = "update" /\ wpc' # "update") =>
        \A k \in FailedSlots :
          /\ k \in DOMAIN filters_screen' <=> k \in DOMAIN filters_screen
          /\ k \in DOMAIN filters_screen => filters_screen'[k] = filters_screen[k]
          /\ k \in DOMAIN filters_roi' <=> k \in DOMAIN filters_roi
          /\ k \in DOMAIN filters_roi => filters_roi'[k] = filters_roi[k]
          /\ k \in DOMAIN last_seen' => (k \in DOMAIN last_seen /\ last_seen'[k] = last_seen[k])
          /\ k \in DictKeySet(smoothed') <=>
                (k \in DictKeySet(smoothed) /\ k \in DOMAIN last_seen /\ now - last_seen[k] < GRACE_MS)
          /\ k \in DictKeySet(smoothed') => DictGet(smoothed', k) = DictGet(smoothed, k)
      ]_vars

C27_Witness ==
    /\ wpc = "update"
    /\ \E k \in FailedSlots : k \in DOMAIN filters_screen /\ k \in DictKeySet(smoothed)
    /\ tips # << >>

\* C30: the slots of the published snapshot are the keys of _smoothed, of
\* _smoothed_roi and of _last_seen.
C30_SameSlotsEverywhere ==
    /\ TipIdSet(latest_tips) = DictKeySet(smoothed)
    /\ DOMAIN smoothed_roi = DictKeySet(smoothed)
    /\ DOMAIN last_seen = DictKeySet(smoothed)
    /\ \A i \in 1..Len(latest_tips) : latest_tips[i].roi # None

C30_Witness ==
    /\ wpc = "sleep"
    /\ latest_tips # << >>
    /\ \E k \in DOMAIN filters_screen : k \notin DOMAIN last_seen

\* C21: a connected sender never waits for a reply: whatever has or has not
\* come back, its pacing sleep ends, its loop goes on to the capture, the
\* capture returns, and a frame that is ready is sent.
C21_SenderNeverWaits ==
    (mode = "remote" /\ conn = "open") =>
        /\ snd_pc = "sleep" => ENABLED S_Sleep
        /\ snd_pc = "loop" => ENABLED S_Loop
        /\ snd_pc = "reading" => ENABLED S_ReadEnd
        /\ (snd_pc = "sending" /\ nsent < MaxMsgs) => ENABLED S_SendOk

\* every frame of the run is sent and no reply has reached the client
C21_Witness ==
    /\ mode = "remote"
    /\ conn = "open"
    /\ cl_running
    /\ nsent = MaxMsgs
    /\ arrived = << >>
    /\ cl_latest = << >>

\* the threads that are in _worker
WorkerThreads == (IF wpc \in {"idle", "exited"} THEN 0 ELSE 1) + extra

\* C25: at most one thread is in the worker loop of the tracker, also after a
\* stop() whose join timed out and a start() that followed it.
C25_SingleWorker == WorkerThreads <= 1

\* a configuration the tracker can run with
ValidConfig(cfg) ==
    /\ 0 < cfg.roi_scale /\ cfg.roi_scale <= 1000
    /\ cfg.screen_w > 0 /\ cfg.screen_h > 0
    /\ cfg.max_hands > 0

\* C23: the constructor rejects an invalid configuration: no tracker results
\* from an ROI scale outside (0, 1], a non-positive output size or a
\* non-positive maximum hand count.
C23_InvalidConfigRejected ==
    (call.op = "construct" /\ ~ValidConfig(call.cfg)) => ~call.ok

\* C24: the ROI is roi_w = floor(w*s), roi_h = floor(roi_w*9/16),
\* x0 = floor((w-roi_w)/2), y0 = floor((h-roi_h)/2); a pixel is accepted iff it
\* is within [x0, x0+roi_w] x [y0, y0+roi_h], both ends included, and is then
\* mapped by its ROI-relative position; 640x480 at 0.95 gives 608, 342, 16, 69
\* and the pixel (320, 240) has rel_x = 0.5.
C24_RoiRectangle ==
    call.op = "roi" =>
        /\ call.roi_w = (call.w * call.scale) \div 1000
        /\ call.roi_h = (call.roi_w * 9) \div 16
        /\ call.x_start = (call.w - call.roi_w) \div 2
        /\ call.y_start = (call.h - call.roi_h) \div 2
        /\ call.accepted <=>
              /\ call.x_start <= call.x /\ call.x <= call.x_start + call.roi_w
              /\ call.y_start <= call.y /\ call.y <= call.y_start + call.roi_h
        /\ call.accepted =>
              /\ call.screen[1] = ((call.x - call.x_start) * SCREEN_W) \div Max(1, call.roi_w)
              /\ call.screen[2] = ((call.y - call.y_start) * SCREEN_H) \div Max(1, call.roi_h)
        /\ (call.w = 640 /\ call.h = 480 /\ call.scale = 950) =>
              /\ call.roi_w = 608 /\ call.roi_h = 342
              /\ call.x_start = 16 /\ call.y_start = 69
              /\ (call.x = 320 /\ call.y = 240) =>
                    (call.accepted /\ 2 * (call.x - call.x_start) = call.roi_w
                        /\ call.screen[1] = SCREEN_W \div 2)

\* the far corner of the ROI of the 640x480 frame at 0.95: accepted, on the edge
C24_Witness ==
    /\ call.op = "roi"
    /\ call.w = 640 /\ call.h = 480 /\ call.scale = 950
    /\ call.x = 624 /\ call.y = 411
    /\ call.accepted

\* C29: the ROI rectangle lies within the frame.
C29_RoiWithinFrame ==
    call.op = "roi" =>
        /\ 0 <= call.x_start
        /\ 0 <= call.y_start
        /\ call.x_start + call.roi_w <= call.w
        /\ call.y_start + call.roi_h <= call.h

\* C28: from the second update() on, the value returned lies between the value
\* returned before and the raw input, so within the raw inputs so far, and
\* equals the raw input when every raw input has been the same.
C28_FilterStaysBetween ==
    (euro.op = "euro" /\ euro.n >= 2) =>
        /\ FLe(FMin(euro.prev, FInt(euro.raw)), euro.ret)
        /\ FLe(euro.ret, FMax(euro.prev, FInt(euro.raw)))
        /\ FLe(FInt(euro.lo), euro.ret)
        /\ FLe(euro.ret, FInt(euro.hi))
        /\ euro.same => euro.ret = FInt(euro.raw)

====
